---- MODULE Spec2Model ----
(***************************************************************************)
(* The distillation pipeline of src/src/lib.rs: Distil::from_path,         *)
(* Distil::new, scale_img, quantize, get_pixels, count_colors_as_lab,      *)
(* remove_similar_colors and distil_palette, as a state machine whose      *)
(* position pc follows the calls of Distil::from_path.                     *)
(***************************************************************************)
EXTENDS Integers, Sequences, FiniteSets, TLC

(***************************************************************************)
(* Program constants (src/src/lib.rs:22-27).                               *)
(***************************************************************************)
MAX_SAMPLE_COUNT == 1000
NQ_PALETTE_SIZE == 256
MIN_BLACK == 8
MAX_WHITE == 247
MIN_DISTANCE_FOR_UNIQUENESS == 10

(***************************************************************************)
(* f32 arithmetic.  A non-negative f32 is [m, e] with value m * 2^e and    *)
(* 2^23 <= m < 2^24, or m = 0 (zero).  Every operation rounds its exact    *)
(* result to the nearest f32, ties to even, as the hardware does.  The     *)
(* colours and dimensions of the model are non-negative and far from the   *)
(* subnormal and overflow ranges, so sign, subnormals and infinities are   *)
(* not represented.                                                        *)
(***************************************************************************)
Pow2(n) == 2 ^ n

F32Zero == [m |-> 0, e |-> 0]

RECURSIVE F32Round(_, _, _, _)
\* The f32 nearest to (q + r/d) * 2^e, where 0 <= r < d.
F32Round(q, r, d, e) ==
    IF q = 0 /\ r = 0 THEN F32Zero
    ELSE IF q >= Pow2(24) THEN F32Round(q \div 2, (q % 2) * d + r, 2 * d, e + 1)
    ELSE IF q < Pow2(23) THEN F32Round(2 * q + ((2 * r) \div d), (2 * r) % d, d, e - 1)
    ELSE IF 2 * r > d \/ (2 * r = d /\ q % 2 = 1)
         THEN (IF q + 1 = Pow2(24) THEN [m |-> Pow2(23), e |-> e + 1]
                                   ELSE [m |-> q + 1, e |-> e])
         ELSE [m |-> q, e |-> e]

\* `n as f32` for an unsigned integer n.
F32FromNat(n) == F32Round(n, 0, 1, 0)

\* `x as u32` / `x as usize`: truncation toward zero.
F32ToNat(x) ==
    IF x.m = 0 THEN 0
    ELSE IF x.e >= 0 THEN x.m * Pow2(x.e)
    ELSE IF x.e < -24 THEN 0
    ELSE x.m \div Pow2(-x.e)

\* x * y.  The 48-bit product of the mantissas is formed from 12-bit halves.
F32Mul(x, y) ==
    IF x.m = 0 \/ y.m = 0 THEN F32Zero
    ELSE LET h1 == x.m \div 4096
             l1 == x.m % 4096
             h2 == y.m \div 4096
             l2 == y.m % 4096
             low == l1 * l2
             mid == h1 * l2 + l1 * h2 + (low \div 4096)
         IN  F32Round(h1 * h2 + (mid \div 4096),
                      (mid % 4096) * 4096 + (low % 4096),
                      Pow2(24), x.e + y.e + 24)

\* x / y, y # 0.
F32Div(x, y) ==
    IF x.m = 0 THEN F32Zero
    ELSE F32Round(x.m \div y.m, x.m % y.m, y.m, x.e - y.e)

\* x + y.
F32Add(x, y) ==
    IF x.m = 0 THEN y
    ELSE IF y.m = 0 THEN x
    ELSE LET hi == IF x.e >= y.e THEN x ELSE y
             lo == IF x.e >= y.e THEN y ELSE x
             sh == hi.e - lo.e
         IN  IF sh > 25 THEN hi
             ELSE F32Round(hi.m + (lo.m \div Pow2(sh)), lo.m % Pow2(sh), Pow2(sh), hi.e)

\* x > y
F32Gt(x, y) ==
    IF x.m = 0 THEN FALSE
    ELSE IF y.m = 0 THEN TRUE
    ELSE x.e > y.e \/ (x.e = y.e /\ x.m > y.m)

RECURSIVE ISqrt(_, _, _)
\* The integer square root of n, one bit at a time: k is the root so far and
\* b the next bit to try.
ISqrt(n, k, b) ==
    IF b < 0 THEN k
    ELSE IF (k + Pow2(b)) * (k + Pow2(b)) <= n THEN ISqrt(n, k + Pow2(b), b - 1)
    ELSE ISqrt(n, k, b - 1)

RECURSIVE SqrtBits(_, _, _)
\* Digit-by-digit square root: q is the root so far, rem the remainder;
\* n more result bits are produced (the radicand's further bits are zero).
SqrtBits(q, rem, n) ==
    IF n = 0 THEN <<q, rem>>
    ELSE IF 4 * rem >= 4 * q + 1
         THEN SqrtBits(2 * q + 1, 4 * rem - (4 * q + 1), n - 1)
         ELSE SqrtBits(2 * q, 4 * rem, n - 1)

\* x.sqrt()
F32Sqrt(x) ==
    IF x.m = 0 THEN F32Zero
    ELSE LET odd == (x.e % 2) # 0
             mm == IF odd THEN 2 * x.m ELSE x.m
             ee == IF odd THEN x.e - 1 ELSE x.e
             q0 == ISqrt(mm, 0, 12)
             qr == SqrtBits(q0, mm - q0 * q0, 13)
             q == qr[1]
         IN  \* q has 25 bits: 24 of the result and the rounding bit; the
             \* square root of an f32 is never half-way between two f32
             F32Round(q \div 2, (q % 2) * 2 + (IF qr[2] > 0 THEN 1 ELSE 0), 4,
                      (ee \div 2) - 12)

(***************************************************************************)
(* Images.  An image is [width, height, px]: px[p] is the number of its     *)
(* pixels whose RGBA value is PixelSamples[p] (the order of the pixels is   *)
(* read only by NeuQuant, which the model leaves open).                    *)
(***************************************************************************)
\* The RGBA values the pixels of the model's images take: both sides of
\* each threshold of get_pixels.
PixelSamples ==
    << <<7, 7, 7, 255>>,        <<8, 8, 8, 255>>,
       <<247, 247, 247, 255>>,  <<248, 248, 248, 255>>,
       <<7, 7, 200, 255>>,      <<120, 60, 30, 254>> >>

PixelIds == 1..Len(PixelSamples)

\* The widths and heights of the decoded images.
DimChoices == {1, 40, 1000, 3000}

\* The largest number of pixels of one value that a mixed image holds
\* beside its main value.
MaxOddPixels == 1

NoPixels == [p \in PixelIds |-> 0]

\* The pixel contents of an image of n pixels: one value throughout, or
\* up to MaxOddPixels pixels of a second value among the first.
Contents(n) ==
    IF n = 0 THEN {NoPixels}
    ELSE {[p \in PixelIds |-> IF p = a THEN n ELSE 0] : a \in PixelIds}
         \cup {[p \in PixelIds |-> IF p = a THEN n - k ELSE IF p = b THEN k ELSE 0] :
                 <<a, b, k>> \in {t \in PixelIds \X PixelIds \X (1..MaxOddPixels) :
                                    t[1] # t[2] /\ t[3] < n}}

NoImage == [width |-> 0, height |-> 0, px |-> NoPixels]

PixelCount(img) == img.width * img.height

\* The contents of a decoded image of n pixels.  An image over the sample
\* budget is of one value: scale_img replaces its pixels before any is read.
DecodedContents(n) ==
    IF n > MAX_SAMPLE_COUNT THEN {c \in Contents(n) : \E p \in PixelIds : c[p] = n}
    ELSE Contents(n)

\* What image::open can decode.
Images ==
    UNION {{[width |-> w, height |-> h, px |-> c] : c \in DecodedContents(w * h)} :
             <<w, h>> \in DimChoices \X DimChoices}

(***************************************************************************)
(* get_image_format and is_supported_format.  A file is [openable, magic,  *)
(* decodable]: whether File::open succeeds, what guess_format makes of its *)
(* first 16 bytes ("unknown": no format), whether image::open decodes it.  *)
(***************************************************************************)
Formats == {"PNG", "JPEG", "GIF", "BMP"}

Files ==
    {[openable |-> TRUE, magic |-> f, decodable |-> d] :
        f \in Formats \cup {"unknown"}, d \in BOOLEAN}
    \cup {[openable |-> FALSE, magic |-> "unknown", decodable |-> FALSE]}

\* Ok(format) as [ok |-> TRUE, format], Err(UnsupportedFormat) as ok = FALSE.
get_image_format(file) ==
    IF file.openable /\ file.magic # "unknown"
    THEN [ok |-> TRUE, format |-> file.magic]
    ELSE [ok |-> FALSE, format |-> "unknown"]

\* is_supported_format with a third format let through.
is_supported_format_gif(format) == format \in {"PNG", "JPEG", "GIF"}

is_supported_format(format) == format \in {"PNG", "JPEG"}

(***************************************************************************)
(* scale_img                                                               *)
(***************************************************************************)
\* ScaledWidth without the square root.
ScaledWidthNoSqrt(width, height) ==
    LET ratio == F32Div(F32FromNat(width), F32FromNat(height))
    IN  F32ToNat(F32Mul(ratio, F32FromNat(MAX_SAMPLE_COUNT)))

\* (ratio * (MAX_SAMPLE_COUNT as f32)).sqrt() as u32
ScaledWidth(width, height) ==
    LET ratio == F32Div(F32FromNat(width), F32FromNat(height))
    IN  F32ToNat(F32Sqrt(F32Mul(ratio, F32FromNat(MAX_SAMPLE_COUNT))))

\* The dimensions DynamicImage::resize(nwidth, nheight, _) gives an image of
\* width x height: the largest that fit the bounds at the image's ratio.
ResizeDims(width, height, nwidth, nheight) ==
    LET ratio == F32Div(F32FromNat(width), F32FromNat(height))
        nratio == F32Div(F32FromNat(nwidth), F32FromNat(nheight))
        gt == F32Gt(nratio, ratio)
        scale == IF gt THEN F32Div(F32FromNat(nheight), F32FromNat(height))
                       ELSE F32Div(F32FromNat(nwidth), F32FromNat(width))
    IN  [width  |-> F32ToNat(F32Mul(F32FromNat(width), scale)),
         height |-> F32ToNat(F32Mul(F32FromNat(height), scale))]

\* The dimensions scale_img returns for an image of width x height.
ScaleDims(width, height) ==
    IF width * height > MAX_SAMPLE_COUNT
    THEN ResizeDims(width, height, ScaledWidth(width, height), height)
    ELSE [width |-> width, height |-> height]

(***************************************************************************)
(* get_pixels                                                              *)
(***************************************************************************)
has_transparency(rgba) == rgba[4] # 255

\* is_black with <= for <.
is_black_inclusive(rgba) ==
    rgba[1] <= MIN_BLACK /\ rgba[2] <= MIN_BLACK /\ rgba[3] <= MIN_BLACK

is_black(rgba) == rgba[1] < MIN_BLACK /\ rgba[2] < MIN_BLACK /\ rgba[3] < MIN_BLACK

is_white(rgba) == rgba[1] > MAX_WHITE /\ rgba[2] > MAX_WHITE /\ rgba[3] > MAX_WHITE

\* The filter of get_pixels: the pixel is skipped.
Skipped(rgba) == has_transparency(rgba) \/ is_black(rgba) \/ is_white(rgba)

\* The pixels get_pixels keeps, as a count per pixel value.
KeptPixels(img) ==
    [p \in PixelIds |-> IF Skipped(PixelSamples[p]) THEN 0 ELSE img.px[p]]

RECURSIVE SumTo(_, _)
\* f[1] + ... + f[n]
SumTo(f, n) == IF n = 0 THEN 0 ELSE f[n] + SumTo(f, n - 1)

\* pixels.len(): four channels are pushed per kept pixel.
PixelsLen(kept) == 4 * SumTo(kept, Len(PixelSamples))

(***************************************************************************)
(* quantize.  NeuQuant is a crate outside the repository; color_map_rgb()  *)
(* is NQ_PALETTE_SIZE colours whatever the samples are, and the model      *)
(* leaves open which: a colour map is the number of its entries that equal *)
(* each colour of CandRGB (count_colors_as_lab reads nothing else of it).  *)
(***************************************************************************)
\* The colours a colour map is made of, in the order of a BTreeMap keyed
\* by the channels.
CandRGB ==
    << <<180, 40, 30>>, <<200, 60, 40>>, <<212, 74, 52>>, <<225, 90, 66>>,
       <<240, 200, 60>> >>

CandIds == 1..Len(CandRGB)

\* How many entries of a colour map may share one colour.
CountChoices == {0, 1, 85, 86, 100, 155, 256}

ColourMaps ==
    {cm \in [CandIds -> CountChoices] : SumTo(cm, Len(CandRGB)) = NQ_PALETTE_SIZE}

(***************************************************************************)
(* count_colors_as_lab                                                     *)
(***************************************************************************)
\* Lab::from_rgb of CandRGB[c] (lab crate), to the nearest f32.
LabOfCand ==
    << [l |-> [m |-> 10514772, e |-> -18], a |-> [m |-> 14321922, e |-> -18],
        b |-> [m |-> 10723702, e |-> -18]],  \* (40.110672, 54.633797, 40.907677)
       [l |-> [m |-> 12199173, e |-> -18], a |-> [m |-> 14228445, e |-> -18],
        b |-> [m |-> 11326184, e |-> -18]],  \* (46.536152, 54.277210, 43.205963)
       [l |-> [m |-> 13332292, e |-> -18], a |-> [m |-> 13917555, e |-> -18],
        b |-> [m |-> 11012423, e |-> -18]],  \* (50.858658, 53.091259, 42.009060)
       [l |-> [m |-> 14628794, e |-> -18], a |-> [m |-> 13431086, e |-> -18],
        b |-> [m |-> 10631166, e |-> -18]],  \* (55.804420, 51.235527, 40.554680)
       [l |-> [m |-> 10738335, e |-> -17], a |-> [m |-> 9263000, e |-> -24],
        b |-> [m |-> 9267378, e |-> -17]] >> \* (81.926994, 0.552118, 70.704483)

from_rgb(c) == LabOfCand[c]

RECURSIVE InsertByCountStrict(_, _, _)
\* InsertByCount with > for >=: equal counts end in reverse order.
InsertByCountStrict(seq, order, n) ==
    IF order = <<>> THEN <<n>>
    ELSE IF seq[order[Len(order)]].count > seq[n].count THEN Append(order, n)
    ELSE Append(InsertByCountStrict(seq, SubSeq(order, 1, Len(order) - 1), n),
                order[Len(order)])

RECURSIVE InsertByCount(_, _, _)
\* The positions `order` (of entries of seq, counts non-increasing) with
\* position n put after every position whose count is >= seq[n]'s.
InsertByCount(seq, order, n) ==
    IF order = <<>> THEN <<n>>
    ELSE IF seq[order[Len(order)]].count >= seq[n].count THEN Append(order, n)
    ELSE Append(InsertByCount(seq, SubSeq(order, 1, Len(order) - 1), n),
                order[Len(order)])

RECURSIVE StableOrder(_, _)
\* sort_by(|&(_, a), &(_, b)| b.cmp(&a)) as a permutation: the positions of
\* seq[1..n] by non-increasing count, equal counts in their order in seq
\* (sort_by is stable).
StableOrder(seq, n) ==
    IF n = 0 THEN <<>> ELSE InsertByCount(seq, StableOrder(seq, n - 1), n)

\* sort_by_count without the sort.
sort_by_count_skipped(seq) == seq

sort_by_count(seq) ==
    LET order == StableOrder(seq, Len(seq))
    IN  [i \in 1..Len(seq) |-> seq[order[i]]]

RECURSIVE CountVecOnce(_, _)
\* CountVec with every colour that occurs counted once.
CountVecOnce(cm, n) ==
    IF n = 0 THEN <<>>
    ELSE IF cm[n] = 0 THEN CountVecOnce(cm, n - 1)
    ELSE Append(CountVecOnce(cm, n - 1), [lab |-> from_rgb(n), count |-> 1])

RECURSIVE CountVecAll(_, _)
\* CountVec with an entry for every colour, also those that do not occur.
CountVecAll(cm, n) ==
    IF n = 0 THEN <<>>
    ELSE Append(CountVecAll(cm, n - 1), [lab |-> from_rgb(n), count |-> cm[n]])

RECURSIVE CountVec(_, _)
\* The fold over color_count_map of count_colors_as_lab: the colours that
\* occur, in the map's order, among the first n of CandRGB.
CountVec(cm, n) ==
    IF n = 0 THEN <<>>
    ELSE IF cm[n] = 0 THEN CountVec(cm, n - 1)
    ELSE Append(CountVec(cm, n - 1), [lab |-> from_rgb(n), count |-> cm[n]])

count_colors_as_lab(cm) == sort_by_count(CountVec(cm, Len(CandRGB)))

(***************************************************************************)
(* remove_similar_colors                                                   *)
(***************************************************************************)
\* A colour axis in 1/64ths, truncated.
Fix64(x) ==
    IF x.m = 0 THEN 0
    ELSE IF x.e >= -6 THEN x.m * Pow2(x.e + 6)
    ELSE IF x.e < -30 THEN 0
    ELSE x.m \div Pow2(-6 - x.e)

\* DE2000::new(x, y) in 1/64ths.  The CIEDE2000 formula of the delta_e crate
\* is outside the repository; the Euclidean distance of the two colours in
\* Lab stands in for it.
DE2000(x, y) ==
    LET dl == Fix64(x.l) - Fix64(y.l)
        da == Fix64(x.a) - Fix64(y.a)
        db == Fix64(x.b) - Fix64(y.b)
    IN  ISqrt(dl * dl + da * da + db * db, 0, 15)

\* delta < MIN_DISTANCE_FOR_UNIQUENESS
IsSimilar(x, y) == DE2000(x, y) < 64 * MIN_DISTANCE_FOR_UNIQUENESS

RECURSIVE NearestSimilarFrom(_, _, _)
\* FirstSimilarFrom with the nearest similar colour for the first.
NearestSimilarFrom(lab_x, refined, from) ==
    IF from > Len(refined) THEN 0
    ELSE LET rest == NearestSimilarFrom(lab_x, refined, from + 1)
         IN  IF ~IsSimilar(lab_x, refined[from].lab) THEN rest
             ELSE IF rest # 0 /\ DE2000(lab_x, refined[rest].lab)
                                    < DE2000(lab_x, refined[from].lab) THEN rest
             ELSE from

RECURSIVE LastSimilarFrom(_, _, _)
\* FirstSimilarFrom without the break: the last similar colour.
LastSimilarFrom(lab_x, refined, from) ==
    IF from > Len(refined) THEN 0
    ELSE LET rest == LastSimilarFrom(lab_x, refined, from + 1)
         IN  IF rest # 0 THEN rest
             ELSE IF IsSimilar(lab_x, refined[from].lab) THEN from
             ELSE 0

RECURSIVE FirstSimilarFrom(_, _, _)
\* The inner loop of the scan: the first position i >= from of refined whose
\* colour is similar to lab_x, or 0 when the loop ends without a break.
FirstSimilarFrom(lab_x, refined, from) ==
    IF from > Len(refined) THEN 0
    ELSE IF IsSimilar(lab_x, refined[from].lab) THEN from
    ELSE FirstSimilarFrom(lab_x, refined, from + 1)

FirstSimilar(lab_x, refined) == FirstSimilarFrom(lab_x, refined, 1)

\* Balanced without the weights.
BalancedUnweighted(x, count_x, y, count_y) ==
    F32Div(F32Add(x, y), F32FromNat(2))

\* (x * count_x + y * count_y) / (count_x + count_y), lines 333-335.
Balanced(x, count_x, y, count_y) ==
    F32Div(F32Add(F32Mul(x, count_x), F32Mul(y, count_y)), F32Add(count_x, count_y))

\* Fold with the count overwritten.
FoldCountOverwritten(refined, sim) ==
    LET lab_x == refined[sim.i].lab
        lab_y == sim.lab
        count_x == F32FromNat(refined[sim.i].count)
        count_y == F32FromNat(sim.count)
    IN  [refined EXCEPT ![sim.i] =
            [lab |-> [l |-> Balanced(lab_x.l, count_x, lab_y.l, count_y),
                      a |-> Balanced(lab_x.a, count_x, lab_y.a, count_y),
                      b |-> Balanced(lab_x.b, count_x, lab_y.b, count_y)],
             count |-> F32ToNat(count_y)]]

\* One iteration of the loop over similars (lines 325-344) for the entry
\* sim = [i, lab, count].
Fold(refined, sim) ==
    LET lab_x == refined[sim.i].lab
        lab_y == sim.lab
        count_x == F32FromNat(refined[sim.i].count)
        count_y == F32FromNat(sim.count)
    IN  [refined EXCEPT ![sim.i] =
            [lab |-> [l |-> Balanced(lab_x.l, count_x, lab_y.l, count_y),
                      a |-> Balanced(lab_x.a, count_x, lab_y.a, count_y),
                      b |-> Balanced(lab_x.b, count_x, lab_y.b, count_y)],
             count |-> refined[sim.i].count + F32ToNat(count_y)]]

(***************************************************************************)
(* distil_palette                                                          *)
(***************************************************************************)
\* lab_color.to_rgb() (lab crate): the RGB triple of a Lab colour, left
\* uninterpreted.
to_rgb(lab) == [to_rgb |-> lab]

distil_palette(pal) ==
    [colors |-> [i \in 1..Len(pal) |-> to_rgb(pal[i].lab)],
     color_count |-> [i \in 0..(Len(pal) - 1) |-> pal[i + 1].count]]

(***************************************************************************)
(* The state of one call of Distil::from_path.                             *)
(***************************************************************************)
VARIABLES
    pc,              \* where the call is: the stage that runs next, or "done"
    file,            \* the file at the path
    img,             \* the decoded image, Distil::new's argument
    scaled_img,      \* scale_img's result
    pixels,          \* get_pixels' result, as a count per pixel value
    quantized,       \* quantize's result, a colour map
    palette,         \* count_colors_as_lab's result
    refined_palette, \* of remove_similar_colors
    similars,        \* of remove_similar_colors
    x,               \* the position in palette of the scan loop
    s,               \* the position in similars of the centroid loop
    colors,          \* Distil.colors
    color_count,     \* Distil.color_count
    err,             \* the DistilError returned, "none" when none
    decoded,         \* history: image::open has been called
    survived,        \* history: the number of pixels get_pixels kept
    assigned,        \* history: assigned[k] is the position in refined_palette
                     \* (before the final sort) that palette[k] went to
    order            \* history: the permutation the final sort applied

vars == <<pc, file, img, scaled_img, pixels, quantized, palette, refined_palette,
          similars, x, s, colors, color_count, err, decoded, survived, assigned,
          order>>

NoColourMap == [c \in CandIds |-> 0]

Init ==
    /\ pc = "from_path"
    /\ file \in Files
    /\ img = NoImage
    /\ scaled_img = NoImage
    /\ pixels = NoPixels
    /\ quantized = NoColourMap
    /\ palette = <<>>
    /\ refined_palette = <<>>
    /\ similars = <<>>
    /\ x = 1
    /\ s = 1
    /\ colors = <<>>
    /\ color_count = <<>>
    /\ err = "none"
    /\ decoded = FALSE
    /\ survived = 0
    /\ assigned = <<>>
    /\ order = <<>>

\* Distil::from_path up to its call of Distil::new (lines 101-110).
FromPath ==
    /\ pc = "from_path"
    /\ LET format == get_image_format(file)
       IN  IF ~format.ok \/ ~is_supported_format(format.format)
           THEN /\ err' = "UnsupportedFormat"
                /\ pc' = "done"
                /\ UNCHANGED <<img, decoded>>
           ELSE /\ decoded' = TRUE
                /\ IF file.decodable
                   THEN /\ img' \in Images
                        /\ pc' = "new"
                        /\ err' = err
                   ELSE /\ err' = "Io"
                        /\ pc' = "done"
                        /\ img' = img
    /\ UNCHANGED <<file, scaled_img, pixels, quantized, palette, refined_palette,
                   similars, x, s, colors, color_count, survived, assigned, order>>

\* scale_img (lines 199-212).  What the Gaussian filter makes of the pixels
\* is left open: any content of the new size.
ScaleImg ==
    /\ pc = "new"
    /\ IF img.width * img.height > MAX_SAMPLE_COUNT
       THEN \E dims \in {ScaleDims(img.width, img.height)} :
               \E c \in Contents(dims.width * dims.height) :
                   scaled_img' = [width |-> dims.width, height |-> dims.height,
                                  px |-> c]
       ELSE scaled_img' = img
    /\ pc' = "scaled"
    /\ UNCHANGED <<file, img, pixels, quantized, palette, refined_palette, similars,
                   x, s, colors, color_count, err, decoded, survived, assigned, order>>

\* get_pixels (lines 243-263), called by quantize.
GetPixels ==
    /\ pc = "scaled"
    /\ LET kept == KeptPixels(scaled_img)
       IN  IF PixelsLen(kept) = 0
           THEN /\ err' = "Uninteresting"
                /\ pc' = "done"
                /\ UNCHANGED <<pixels, survived>>
           ELSE /\ pixels' = kept
                /\ survived' = PixelsLen(kept) \div 4
                /\ pc' = "sampled"
                /\ err' = err
    /\ img' = NoImage
    /\ UNCHANGED <<file, scaled_img, quantized, palette, refined_palette, similars,
                   x, s, colors, color_count, decoded, assigned, order>>

\* The rest of quantize (lines 223-233): NeuQuant::new and the colour map.
Quantize ==
    /\ pc = "sampled"
    /\ quantized' \in ColourMaps
    /\ pixels' = NoPixels
    /\ scaled_img' = NoImage
    /\ pc' = "quantized"
    /\ UNCHANGED <<file, img, palette, refined_palette, similars, x, s, colors,
                   color_count, err, decoded, survived, assigned, order>>

\* count_colors_as_lab (lines 284-301).
CountColorsAsLab ==
    /\ pc = "quantized"
    /\ palette' = count_colors_as_lab(quantized)
    /\ quantized' = NoColourMap
    /\ pc' = "scan"
    /\ UNCHANGED <<file, img, scaled_img, pixels, refined_palette, similars, x, s,
                   colors, color_count, err, decoded, survived, assigned, order>>

\* One iteration of the scan loop of remove_similar_colors (lines 307-323).
ScanStep ==
    /\ pc = "scan"
    /\ x <= Len(palette)
    /\ LET lab_x == palette[x].lab
           count_x == palette[x].count
           i == FirstSimilar(lab_x, refined_palette)
       IN  IF i # 0
           THEN /\ similars' = Append(similars, [i |-> i, lab |-> lab_x, count |-> count_x])
                /\ refined_palette' = refined_palette
                /\ assigned' = Append(assigned, i)
           ELSE /\ refined_palette' = Append(refined_palette,
                                             [lab |-> lab_x, count |-> count_x])
                /\ similars' = similars
                /\ assigned' = Append(assigned, Len(refined_palette) + 1)
    /\ x' = x + 1
    /\ UNCHANGED <<pc, file, img, scaled_img, pixels, quantized, palette, s, colors,
                   color_count, err, decoded, survived, order>>

\* The scan loop ends.
ScanDone ==
    /\ pc = "scan"
    /\ x > Len(palette)
    /\ pc' = "centroid"
    /\ UNCHANGED <<file, img, scaled_img, pixels, quantized, palette, refined_palette,
                   similars, x, s, colors, color_count, err, decoded, survived,
                   assigned, order>>

\* One iteration of the loop over similars (lines 325-344).
CentroidStep ==
    /\ pc = "centroid"
    /\ s <= Len(similars)
    /\ refined_palette' = Fold(refined_palette, similars[s])
    /\ s' = s + 1
    /\ UNCHANGED <<pc, file, img, scaled_img, pixels, quantized, palette, similars, x,
                   colors, color_count, err, decoded, survived, assigned, order>>

\* The final sort of remove_similar_colors (line 346) and its return.
SortPalette ==
    /\ pc = "centroid"
    /\ s > Len(similars)
    /\ refined_palette' = sort_by_count(refined_palette)
    /\ order' = StableOrder(refined_palette, Len(refined_palette))
    /\ pc' = "merged"
    /\ UNCHANGED <<file, img, scaled_img, pixels, quantized, palette, similars, x, s,
                   colors, color_count, err, decoded, survived, assigned>>

\* distil_palette (lines 353-366) and the return of Distil::new.
DistilPalette ==
    /\ pc = "merged"
    /\ colors' = distil_palette(refined_palette).colors
    /\ color_count' = distil_palette(refined_palette).color_count
    /\ pc' = "done"
    /\ UNCHANGED <<file, img, scaled_img, pixels, quantized, palette, refined_palette,
                   similars, x, s, err, decoded, survived, assigned, order>>

Next ==
    \/ FromPath
    \/ ScaleImg
    \/ GetPixels
    \/ Quantize
    \/ CountColorsAsLab
    \/ ScanStep
    \/ ScanDone
    \/ CentroidStep
    \/ SortPalette
    \/ DistilPalette

Spec == Init /\ [][Next]_vars

(***************************************************************************)
(* The claims.                                                             *)
(***************************************************************************)
Returned == pc = "done" /\ err = "none"

RECURSIVE SumCounts(_, _)
\* The sum of the counts of seq[1..n].
SumCounts(seq, n) == IF n = 0 THEN 0 ELSE seq[n].count + SumCounts(seq, n - 1)

RECURSIVE SumValues(_, _)
\* The sum of the values of a map with keys 0..n-1.
SumValues(map, n) == IF n = 0 THEN 0 ELSE map[n - 1] + SumValues(map, n - 1)

ClaimDropped(rgba) ==
    \/ rgba[4] # 255
    \/ \A ch \in 1..3 : rgba[ch] < 8
    \/ \A ch \in 1..3 : rgba[ch] > 247

\* get_pixels has run on scaled_img, which the state still holds.
Sampled == pc = "sampled" \/ (pc = "done" /\ err = "Uninteresting")

\* C2: the pipeline returns Uninteresting, and no palette, exactly when
\* every pixel of the scaled image is dropped by the filter (alpha # 255, or
\* all three channels < 8, or all three > 247); a scaled image that holds an
\* opaque (8,8,8), (247,247,247) or (7,7,200) pixel never yields it, and
\* nothing but get_pixels raises it.
C2_UninterestingIffAllDropped ==
    /\ Sampled =>
          ((err = "Uninteresting") <=>
               \A p \in PixelIds : scaled_img.px[p] > 0 => ClaimDropped(PixelSamples[p]))
    /\ Sampled =>
          \A p \in PixelIds :
              /\ PixelSamples[p] \in {<<8, 8, 8, 255>>, <<247, 247, 247, 255>>,
                                      <<7, 7, 200, 255>>}
              /\ scaled_img.px[p] > 0
              => err = "none"
    /\ err = "Uninteresting" => pc = "done" /\ colors = <<>> /\ color_count = <<>>
    /\ pc \in {"sampled", "quantized", "scan", "centroid", "merged"} \/ Returned
          => err = "none" /\ survived > 0

C2_Witness ==
    /\ err = "Uninteresting"
    /\ PixelCount(scaled_img) > 1
    /\ Cardinality({p \in PixelIds : scaled_img.px[p] > 0}) = 2

\* C3: on a file whose sniffed format is neither PNG nor JPEG, from_path
\* returns UnsupportedFormat without image::open, scale_img, get_pixels or
\* any later stage having run, whatever the file decodes to (so before Io
\* and Uninteresting); and no error comes with a palette.
C3_FormatGate ==
    /\ file.magic \notin {"PNG", "JPEG"} =>
          /\ pc \in {"from_path", "done"}
          /\ pc = "done" => err = "UnsupportedFormat"
          /\ ~decoded
          /\ img = NoImage /\ scaled_img = NoImage /\ pixels = NoPixels
          /\ quantized = NoColourMap /\ palette = <<>> /\ refined_palette = <<>>
    /\ err = "UnsupportedFormat" => file.magic \notin {"PNG", "JPEG"}
    /\ err # "none" => pc = "done" /\ colors = <<>> /\ color_count = <<>>

C3_Witness ==
    /\ pc = "done"
    /\ file.openable /\ file.magic = "GIF" /\ file.decodable
    /\ err = "UnsupportedFormat"

\* The count merged into position j of refined_palette (as before the final
\* sort): the counts of the entries of palette that went to j.
RECURSIVE MergedCount(_, _)
MergedCount(j, n) ==
    IF n = 0 THEN 0
    ELSE (IF assigned[n] = j THEN palette[n].count ELSE 0) + MergedCount(j, n - 1)

\* C4: in every Distil returned, color_count has exactly the keys
\* 0..colors.len()-1, color_count[i] is the merged count of colors[i], the
\* counts are non-increasing by position, and distil_palette neither merges
\* nor reorders: entry i of both is entry i of the list it is given.
C4_DescendingCounts ==
    Returned =>
        /\ DOMAIN color_count = 0..(Len(colors) - 1)
        /\ Len(colors) = Len(refined_palette)
        /\ \A i \in 0..(Len(colors) - 1) :
              /\ colors[i + 1] = to_rgb(refined_palette[i + 1].lab)
              /\ color_count[i] = refined_palette[i + 1].count
              /\ color_count[i] = MergedCount(order[i + 1], Len(palette))
        /\ \A i \in 0..(Len(colors) - 2) : color_count[i] >= color_count[i + 1]

\* The final sort moved an entry: a later representative overtook an earlier.
C4_Witness ==
    /\ Returned
    /\ Len(colors) >= 2
    /\ \E i \in 1..Len(order) : order[i] # i

\* C5: scale_img returns an image of at most MAX_SAMPLE_COUNT pixels with
\* its dimensions (and pixels) unchanged, and an image of more pixels with
\* dimensions whose product is at most MAX_SAMPLE_COUNT.
C5_Scaling ==
    pc = "scaled" =>
        /\ PixelCount(img) <= 1000 => scaled_img = img
        /\ PixelCount(img) > 1000 => PixelCount(scaled_img) <= 1000

\* An image over the budget scaled to just under the budget.
C5_Witness ==
    /\ pc = "scaled"
    /\ PixelCount(img) > 1000
    /\ PixelCount(scaled_img) > 900
    /\ PixelCount(scaled_img) <= 1000

\* C6: a returned Distil has at least one and at most NQ_PALETTE_SIZE
\* colours, and as many counts: remove_similar_colors never holds more
\* entries than the histogram it was given, and the histogram has one entry
\* per colour of the colour map, which has NQ_PALETTE_SIZE entries.
C6_BoundedCardinality ==
    /\ Len(refined_palette) + Len(similars) <= Len(palette)
    /\ pc = "quantized" =>
          /\ Len(count_colors_as_lab(quantized))
                = Cardinality({c \in CandIds : quantized[c] > 0})
          /\ Len(count_colors_as_lab(quantized)) <= SumTo(quantized, Len(CandRGB))
          /\ SumTo(quantized, Len(CandRGB)) = 256
    /\ Len(palette) <= 256
    /\ Returned =>
          /\ Len(colors) >= 1
          /\ Len(colors) <= Len(palette)
          /\ Len(colors) <= 256
          /\ Cardinality(DOMAIN color_count) = Len(colors)

\* Every colour of the colour map became a colour of the result.
C6_Witness ==
    /\ Returned
    /\ Len(colors) = Len(palette)
    /\ Len(colors) >= 3

\* Every two colours of pal are at distance >= 10.
PairwiseFar(pal) ==
    \A i, j \in 1..Len(pal) : i # j => DE2000(pal[i].lab, pal[j].lab) >= 64 * 10

Merged == pc \in {"merged", "done"} /\ err = "none"

\* C7: given a list whose colours are pairwise at distance >= 10 (and whose
\* counts are non-increasing, as every list of count_colors_as_lab is),
\* remove_similar_colors returns the list itself: same length, colours,
\* counts and order.
C7_DistinctUnchanged ==
    Merged /\ PairwiseFar(palette) => refined_palette = palette

\* Three colours far from each other, two of them of equal count.
C7_Witness ==
    /\ pc = "merged"
    /\ PairwiseFar(palette)
    /\ Len(palette) >= 3
    /\ palette[2].count = palette[3].count

\* The entries of palette that went to position j of refined_palette.
FoldedInto(j) == {k \in 1..Len(assigned) : assigned[k] = j}

RECURSIVE FoldedSoFar(_, _)
\* The sum of the counts of the first n entries of similars that name j.
FoldedSoFar(j, n) ==
    IF n = 0 THEN 0
    ELSE (IF similars[n].i = j THEN similars[n].count ELSE 0) + FoldedSoFar(j, n - 1)

\* The entry of palette that position j of refined_palette was made of.
FirstOf(j) == CHOOSE k \in FoldedInto(j) : \A k2 \in FoldedInto(j) : k <= k2

\* C8: remove_similar_colors conserves the counts.  Every entry of its input
\* is folded into exactly one entry of its output, each output count is the
\* sum of the counts of the entries folded into it (during the loop over
\* similars: of those folded so far), and the output counts sum to the
\* input counts.
C8_MergerConservation ==
    /\ pc = "centroid" =>
          \A j \in 1..Len(refined_palette) :
              refined_palette[j].count
                  = palette[FirstOf(j)].count + FoldedSoFar(j, s - 1)
    /\ Merged =>
          /\ Len(assigned) = Len(palette)
          /\ \A k \in 1..Len(palette) : assigned[k] \in 1..Len(refined_palette)
          /\ Len(refined_palette) + Len(similars) = Len(palette)
          /\ {order[i] : i \in 1..Len(order)} = 1..Len(refined_palette)
          /\ Len(order) = Len(refined_palette)
          /\ \A i \in 1..Len(refined_palette) :
                refined_palette[i].count = MergedCount(order[i], Len(palette))
          /\ SumCounts(refined_palette, Len(refined_palette))
                = SumCounts(palette, Len(palette))

\* An entry of the output that three entries of the input were folded into.
C8_Witness ==
    /\ pc = "merged"
    /\ \E j \in 1..Len(refined_palette) : Cardinality(FoldedInto(j)) >= 3

RECURSIVE FoldAll(_, _, _)
\* refined with the first n entries of sims folded in: the centroids of the
\* representatives as of the merges recorded so far.
FoldAll(refined, sims, n) ==
    IF n = 0 THEN refined ELSE Fold(FoldAll(refined, sims, n - 1), sims[n])

ScanIteration == pc = "scan" /\ x <= Len(palette)

\* C9 as stated: each incoming colour is merged into the first representative
\* whose current colour, the centroid of the merges made into it so far, is
\* at distance < 10, and appended when there is none.
C9_ComparesCentroids ==
    [][ScanIteration =>
         LET i == FirstSimilar(palette[x].lab,
                               FoldAll(refined_palette, similars, Len(similars)))
         IN  assigned'[x] = IF i # 0 THEN i ELSE Len(refined_palette) + 1]_vars

\* The representatives whose original colour, that of the entry of palette
\* they were made of, is at distance < 10 of palette[x]'s.
SimilarOriginals ==
    {j \in 1..Len(refined_palette) :
        DE2000(palette[x].lab, palette[FirstOf(j)].lab) < 64 * 10}

\* C9, amended: each incoming colour is compared, in insertion order, with
\* the original colour of every representative (the colour it was inserted
\* with: no merge moves a representative before the scan has ended) and is
\* recorded for the first one at distance < 10, not the nearest; it is
\* appended as a new representative only if there is none.
C9_FirstMatchOnOriginals ==
    [][ScanIteration =>
         LET entry == palette[x]
         IN  IF SimilarOriginals # {}
             THEN LET j == CHOOSE j \in SimilarOriginals :
                               \A j2 \in SimilarOriginals : j <= j2
                  IN  /\ assigned'[x] = j
                      /\ similars' = Append(similars, [i |-> j, lab |-> entry.lab,
                                                       count |-> entry.count])
                      /\ refined_palette' = refined_palette
             ELSE /\ assigned'[x] = Len(refined_palette) + 1
                  /\ refined_palette' = Append(refined_palette, entry)
                  /\ similars' = similars]_vars

\* A colour recorded for the first similar representative while a later
\* representative was nearer.
C9_Witness ==
    /\ pc \in {"scan", "centroid"}
    /\ \E k \in 1..Len(assigned) : \E j2 \in 1..Len(refined_palette) :
          /\ assigned[k] < j2
          /\ FirstOf(j2) < k
          /\ FirstOf(assigned[k]) < k
          /\ DE2000(palette[k].lab, palette[FirstOf(j2)].lab)
                < DE2000(palette[k].lab, palette[FirstOf(assigned[k])].lab)

Axes == {"l", "a", "b"}

\* Exact arithmetic on non-negative multiples of 2^-24, held as <<h, r>> for
\* h * 4096 + r with r < 4096.
Norm(p) == <<p[1] + (p[2] \div 4096), p[2] % 4096>>

\* n times the value of the f32 v, exactly.
Times(v, n) ==
    LET k == n * Pow2(v.e + 24)
    IN  Norm(<<k * (v.m \div 4096), k * (v.m % 4096)>>)

RECURSIVE WeightedSum(_, _, _)
\* The sum of colour * count, on one axis, over the entries among the first
\* n of palette that were folded into position j.
WeightedSum(j, axis, n) ==
    IF n = 0 THEN <<0, 0>>
    ELSE LET rest == WeightedSum(j, axis, n - 1)
             term == Times(palette[n].lab[axis], palette[n].count)
         IN  IF assigned[n] = j
             THEN Norm(<<rest[1] + term[1], rest[2] + term[2]>>)
             ELSE rest

\* count * colour of output entry i minus the weighted sum of what was folded
\* into it, on one axis, as <<difference of h, difference of r>>.
CentroidError(i, axis) ==
    LET out == Times(refined_palette[i].lab[axis], refined_palette[i].count)
        sum == WeightedSum(order[i], axis, Len(palette))
    IN  <<out[1] - sum[1], out[2] - sum[2]>>

Abs(n) == IF n < 0 THEN 0 - n ELSE n

Absorbed(i) == Cardinality(FoldedInto(order[i])) - 1

KeepsOriginal(i) ==
    Absorbed(i) = 0 => refined_palette[i].lab = palette[FirstOf(order[i])].lab

\* C10 as stated: the colour of every output entry is, on each axis, the
\* count-weighted mean of the original colours folded into it, and an entry
\* that absorbed nothing keeps its colour.
C10_ExactCentroid ==
    Merged =>
        \A i \in 1..Len(refined_palette) :
            /\ \A axis \in Axes : CentroidError(i, axis) = <<0, 0>>
            /\ KeepsOriginal(i)

\* C10, amended: the colour of every output entry is the count-weighted mean
\* of the original colours folded into it up to the rounding of the f32
\* arithmetic of each fold, applied in the order of similars: on each axis it
\* is within 2^-15 of the mean per absorbed entry.  An entry that absorbed
\* nothing keeps its original colour exactly.
C10_CentroidWithinRounding ==
    Merged =>
        \A i \in 1..Len(refined_palette) :
            /\ \A axis \in Axes :
                  LET d == CentroidError(i, axis)
                  IN  /\ Abs(d[1]) <= Pow2(14)
                      /\ Abs(d[1] * 4096 + d[2])
                            <= refined_palette[i].count * Absorbed(i) * Pow2(9)
            /\ KeepsOriginal(i)

\* An output entry that absorbed two entries and whose colour is not the
\* exact mean, next to one that absorbed nothing.
C10_Witness ==
    /\ pc = "merged"
    /\ \E i \in 1..Len(refined_palette) :
          /\ Absorbed(i) >= 2
          /\ \E axis \in Axes : CentroidError(i, axis) # <<0, 0>>
    /\ \E i \in 1..Len(refined_palette) : Absorbed(i) = 0

\* The scan loop is running or has ended and no fold has been made yet.
Scanning == pc = "scan" \/ (pc = "centroid" /\ s = 1)

\* The scan loop has begun: the facts it establishes about the original
\* colours stay true of palette, assigned and similars until the return.
Scanned == pc \in {"scan", "centroid", "merged"}

\* The original colour of representative j.
Original(j) == palette[FirstOf(j)].lab

\* C11: invariant of the scan loop of remove_similar_colors.  During the
\* scan refined_palette holds the unmodified entries its representatives
\* were made of; the original colours of any two representatives are at
\* distance >= 10; every entry of similars is at distance < 10 of the
\* original colour of the representative it names and at distance >= 10 of
\* the original colour of every representative inserted before that one.
\* (The final, centroid-shifted colours need not be >= 10 apart: C11_Witness.)
C11_ScanInvariant ==
    /\ Scanning =>
          /\ Len(assigned) = x - 1
          /\ \A j \in 1..Len(refined_palette) :
                refined_palette[j] = palette[FirstOf(j)]
    /\ Scanned =>
          /\ \A j1, j2 \in 1..Len(refined_palette) :
                j1 < j2 => ~IsSimilar(Original(j2), Original(j1))
          /\ \A t \in 1..Len(similars) :
                /\ similars[t].i \in 1..Len(refined_palette)
                /\ IsSimilar(similars[t].lab, Original(similars[t].i))
                /\ \A j \in 1..(similars[t].i - 1) :
                      ~IsSimilar(similars[t].lab, Original(j))

\* After a scan that recorded a merge, two final colours at distance < 10
\* whose original colours are at distance >= 10.
C11_Witness ==
    /\ pc = "merged"
    /\ similars # <<>>
    /\ \E i1, i2 \in 1..Len(refined_palette) :
          /\ i1 # i2
          /\ IsSimilar(refined_palette[i1].lab, refined_palette[i2].lab)
          /\ ~IsSimilar(Original(order[i1]), Original(order[i2]))
          /\ ~IsSimilar(Original(order[i2]), Original(order[i1]))

====
